---------------------------- MODULE Spec2Model ----------------------------
(***************************************************************************)
(* Golf-course pipeline: the Record Cleaner (process_golf_courses), the    *)
(* Enrichment Orchestrator (enrich_golf_course_addresses, with the address *)
(* helpers of geocoding_utils) and the Schema Validator                    *)
(* (validate_golf_courses over the GolfCourse model).                      *)
(*                                                                         *)
(* Text is a sequence of one-character strings, so that strip, lower,      *)
(* substring search, digit tests and concatenation are computed character  *)
(* by character.  A character TLA+ has no escape for is the string of its  *)
(* Python escape (the vertical tab is the string of the four characters    *)
(* backslash, x, 0, b).  A cell holding Python None is the value None      *)
(* below, a cell holding float NaN is the value NaN.                       *)
(***************************************************************************)
EXTENDS Integers, Sequences, FiniteSets, TLC

VARIABLES
    \* ---- process_golf_courses
    raw_df,            \* the DataFrame handed to the Cleaner
    df_cleaned,        \* the DataFrame it returns
    duplicate_list,    \* the distinct duplicated names it reports
    rows_removed,      \* the count of rows dropped for a missing name
    clean_pc,          \* "idle" | "start" | "done"
    \* ---- validate_golf_courses
    val_df,            \* the DataFrame handed to the Validator
    val_i,             \* rows consumed so far by the iterrows loop
    data_list,         \* the valid records
    errors,            \* the error rows
    val_pc,            \* "idle" | "loop" | "done"
    \* ---- enrich_golf_course_addresses
    in_df,             \* the DataFrame handed to the Orchestrator
    throttle_threshold,
    df,                \* the working copy df[mask].copy()
    rows_to_process,   \* mask.sum()
    count,             \* enumerate(..., 1): the rows whose turn of the loop has ended
    enrich_pc,         \* "idle" | "start" | "loop" | "after_loop" | "done" | "raised"
    calls,             \* the lookup calls made so far, with how each ended
    sleeps,            \* the values of count after which time.sleep ran
    checkpoint,        \* the content of the file at checkpoint_path (<<>>: never written)
    csv_log,           \* the df.to_csv calls made so far
    returned,          \* the DataFrame returned (meaningful when enrich_pc = "done")
    \* ---- one call of a pure function (a model validator, a geocoding_utils helper)
    call_args,         \* the arguments of the call
    call_result,       \* what it returned (meaningful when call_pc = "returned")
    call_pc            \* "idle" | "called" | "returned"

cleanVars == <<raw_df, df_cleaned, duplicate_list, rows_removed, clean_pc>>
valVars == <<val_df, val_i, data_list, errors, val_pc>>
enrichVars ==
    <<in_df, throttle_threshold, df, rows_to_process, count, enrich_pc, calls,
      sleeps, checkpoint, csv_log, returned>>
callVars == <<call_args, call_result, call_pc>>
vars == <<cleanVars, valVars, enrichVars, callVars>>

(***************************************************************************)
(* Text helpers                                                            *)
(***************************************************************************)
\* Python None (also what row.get and dict.get default to).  It is a
\* one-element sequence whose element is not a character, so it differs from
\* every text.
None == <<"None">>

\* float('nan'), as pandas holds a missing cell; unlike None it is truthy
NaN == <<"NaN">>

\* pd.isna(x)
isna(x) == x = None \/ x = NaN

\* A key missing from a response whose value, when present, is a dict
Absent == [absent |-> TRUE]

\* the characters str.strip() removes (those str.isspace() holds for)
Whitespace ==
    { " ", "\t", "\n", "\r", "\f", "\\x0b", "\\x1c", "\\x1d", "\\x1e", "\\x1f",
      "\\x85", "\\xa0", "\\u1680", "\\u2000", "\\u2001", "\\u2002", "\\u2003",
      "\\u2004", "\\u2005", "\\u2006", "\\u2007", "\\u2008", "\\u2009", "\\u200a",
      "\\u2028", "\\u2029", "\\u202f", "\\u205f", "\\u3000" }
\* [0-9]
Digits == {"0", "1", "2", "3", "4", "5", "6", "7", "8", "9"}
\* \d of a str pattern: every Unicode decimal digit; beyond [0-9] the
\* Arabic-Indic digit three stands for the others
DecimalDigits == Digits \cup {"\\u0663"}
\* the characters str.isdigit() holds for: the decimal digits and the digit
\* characters that are not decimal, for which superscript two stands
IsDigit == DecimalDigits \cup {"\\xb2"}

\* bool(x) of a cell holding None or a str
Truthy(x) == x # None /\ x # <<>>

RECURSIVE LStrip(_)
LStrip(s) ==
    IF s = <<>> THEN <<>>
    ELSE IF Head(s) \in Whitespace THEN LStrip(Tail(s)) ELSE s

RECURSIVE RStrip(_)
RStrip(s) ==
    IF s = <<>> THEN <<>>
    ELSE IF s[Len(s)] \in Whitespace THEN RStrip(SubSeq(s, 1, Len(s) - 1)) ELSE s

\* str.strip()
Strip(s) == RStrip(LStrip(s))

UpperSeq ==
    << "A", "B", "C", "D", "E", "F", "G", "H", "I", "J", "K", "L", "M",
       "N", "O", "P", "Q", "R", "S", "T", "U", "V", "W", "X", "Y", "Z" >>
LowerSeq ==
    << "a", "b", "c", "d", "e", "f", "g", "h", "i", "j", "k", "l", "m",
       "n", "o", "p", "q", "r", "s", "t", "u", "v", "w", "x", "y", "z" >>

\* The cased letters outside ASCII that the texts of this model may hold,
\* each written as its Python escape, and str.lower() of each: LATIN CAPITAL
\* A WITH GRAVE, LATIN CAPITAL E WITH ACUTE, GREEK CAPITAL ALPHA, LATIN
\* CAPITAL I WITH DOT ABOVE (two code points once lowered) and KELVIN SIGN.
\* The alphabet of the texts is ASCII and the characters this module names;
\* every character of it that is not listed here or in UpperSeq is left as
\* it is by str.lower().
NonAsciiUpperSeq == << "\\xc0", "\\xc9", "\\u0391", "\\u0130", "\\u212a" >>
NonAsciiLowerSeq ==
    << << "\\xe0" >>, << "\\xe9" >>, << "\\u03b1" >>, << "i", "\\u0307" >>, << "k" >> >>

\* str.lower() of the one-character string c
lower_char(c) ==
    IF \E u \in 1..Len(UpperSeq) : UpperSeq[u] = c
    THEN << LowerSeq[CHOOSE u \in 1..Len(UpperSeq) : UpperSeq[u] = c] >>
    ELSE IF \E u \in 1..Len(NonAsciiUpperSeq) : NonAsciiUpperSeq[u] = c
    THEN NonAsciiLowerSeq[CHOOSE u \in 1..Len(NonAsciiUpperSeq) : NonAsciiUpperSeq[u] = c]
    ELSE << c >>

\* str.lower()
RECURSIVE lower(_)
lower(s) == IF s = <<>> THEN <<>> ELSE lower_char(Head(s)) \o lower(Tail(s))

\* sub in s
Contains(sub, s) ==
    \E i \in 0..(Len(s) - Len(sub)) : SubSeq(s, i + 1, i + Len(sub)) = sub

\* sep.join(parts)
RECURSIVE Join(_, _)
Join(sep, parts) ==
    IF parts = <<>> THEN <<>>
    ELSE IF Len(parts) = 1 THEN parts[1]
    ELSE parts[1] \o sep \o Join(sep, Tail(parts))

(***************************************************************************)
(* process_golf_courses (Record Cleaner)                                   *)
(* A row is [index, name]: its DataFrame index label and its value in the  *)
(* identifying column col_name.                                            *)
(***************************************************************************)
\* df.dropna(subset=[col_name])
dropna(frame) == SelectSeq(frame, LAMBDA r : ~isna(r.name))

\* df[df[col_name].astype(str).str.strip() != ""]
StripFilterKeepsAll(frame) == frame
strip_filter(frame) == SelectSeq(frame, LAMBDA r : Strip(r.name) # <<>>)

\* df.duplicated(subset=[col_name], keep='first'): position i repeats an earlier one
duplicated(frame, i) == \E j \in 1..(i - 1) : frame[j].name = frame[i].name

\* Series.unique(): first occurrences, in order of appearance
RECURSIVE unique(_)
unique(s) ==
    IF s = <<>> THEN <<>>
    ELSE LET init == unique(SubSeq(s, 1, Len(s) - 1))
             last == s[Len(s)]
         IN  IF \E k \in 1..Len(init) : init[k] = last THEN init
             ELSE Append(init, last)

\* df[mask]: the rows at the positions in keep, in their original order
RECURSIVE RowsAt(_, _, _)
RowsAt(frame, n, keep) ==
    IF n = 0 THEN <<>>
    ELSE IF n \in keep THEN Append(RowsAt(frame, n - 1, keep), frame[n])
         ELSE RowsAt(frame, n - 1, keep)

DropDuplicatesKeepLast(frame) ==
    RowsAt(frame, Len(frame),
           { i \in 1..Len(frame) : ~(\E j \in (i + 1)..Len(frame) : frame[j].name = frame[i].name) })
\* df.drop_duplicates(subset=[col_name], keep='first')
drop_duplicates(frame) ==
    RowsAt(frame, Len(frame), { i \in 1..Len(frame) : ~duplicated(frame, i) })

\* df.loc[duplicate_mask, col_name].unique().tolist()
DuplicateNames(frame) ==
    LET dup == RowsAt(frame, Len(frame), { i \in 1..Len(frame) : duplicated(frame, i) })
    IN  unique([k \in 1..Len(dup) |-> dup[k].name])

\* The whole of process_golf_courses
process_golf_courses ==
    /\ clean_pc = "start"
    /\ LET filtered == strip_filter(dropna(raw_df))
       IN  /\ rows_removed' = Len(raw_df) - Len(filtered)
           /\ duplicate_list' = DuplicateNames(filtered)
           /\ df_cleaned' = drop_duplicates(filtered)
    /\ clean_pc' = "done"
    /\ UNCHANGED <<raw_df, valVars, enrichVars, callVars>>

\* ---- inputs of the Cleaner
MaxCleanRows == 3
NameValues ==
    { None, NaN, <<>>, <<" ">>, <<" ", "\t">>, <<"\r">>, <<"\\x1c", "\f">>,
      <<"a">>, <<"A">>, <<" ", "a">>, <<"b">> }
CleanInputs ==
    UNION { { [i \in 1..n |-> [index |-> i, name |-> f[i]]] : f \in [1..n -> NameValues] }
            : n \in 0..MaxCleanRows }

(***************************************************************************)
(* GolfCourse (the pydantic model of models/model.py)                      *)
(* A row of the Validator's input is a record of the columns               *)
(*   CourseName, CountryCode, CourseType, Address, PostCode, Latitude,     *)
(*   Longitude, Par                                                        *)
(* (Country, Course Index and Slope Rating are well-typed in every input   *)
(* drawn below and raise no error, so they are not carried).               *)
(***************************************************************************)
Upper == { UpperSeq[u] : u \in 1..Len(UpperSeq) }

\* A regular expression ^e1 e2 ... en$ is a sequence of items: a character
\* class repeated between lo and hi times.
Item(cls, lo, hi) == [cls |-> cls, lo |-> lo, hi |-> hi]

\* Python's $ (no MULTILINE): the end of the text, or just before a final newline
AtEnd(s, j) == j = Len(s) + 1 \/ (j = Len(s) /\ s[j] = "\n")

\* re.match(pattern, s) from item i of the pattern and position j of s
RECURSIVE MatchFrom(_, _, _, _)
MatchFrom(pat, i, s, j) ==
    IF i > Len(pat) THEN AtEnd(s, j)
    ELSE \E n \in pat[i].lo..pat[i].hi :
            /\ j + n - 1 <= Len(s)
            /\ \A k \in j..(j + n - 1) : s[k] \in pat[i].cls
            /\ MatchFrom(pat, i + 1, s, j + n)

re_match(pat, s) == MatchFrom(pat, 1, s, 1)

\* r"^[A-Z]{1,2}[0-9][A-Z0-9]? ?[0-9][A-Z]{2}$"
UK_POSTCODE_REGEX ==
    << Item(Upper, 1, 2), Item(Digits, 1, 1), Item(Upper \cup Digits, 0, 1),
       Item({" "}, 0, 1), Item(Digits, 1, 1), Item(Upper, 2, 2) >>

\* r"^\d{5}$"
FR_POSTCODE_REGEX == << Item(DecimalDigits, 5, 5) >>

\* GolfCourseTypes
NINE_HOLE_PAR_3 == "9 hole - par 3 course"
NINE_HOLE == "9 hole"
EIGHTEEN_HOLE == "18 hole"
GolfCourseTypes == { NINE_HOLE_PAR_3, NINE_HOLE, EIGHTEEN_HOLE }

\* the ISO 3166-1 alpha-3 codes the inputs below use
CountryAlpha3 == { "GBR", "FRA", "USA" }

\* One element of e.errors().  msg is the sequence of the pieces of text
\* whose concatenation is the message: the literal text first, then, one
\* character each, the value an f-string puts after it.
Error(loc, input, msg) == [loc |-> loc, input |-> input, msg |-> msg]

DigitSeq == << "0", "1", "2", "3", "4", "5", "6", "7", "8", "9" >>

\* f"{par}": the decimal digits of an int, after "-" when it is negative
RECURSIVE format_int(_)
format_int(n) ==
    IF n < 0 THEN << "-" >> \o format_int(0 - n)
    ELSE IF n < 10 THEN << DigitSeq[n + 1] >>
    ELSE format_int(n \div 10) \o << DigitSeq[(n % 10) + 1] >>

\* Field validation, in the order the fields are declared; every failing
\* field contributes its error (pydantic collects them all).
FieldErrors(row) ==
    (IF row.CountryCode \in CountryAlpha3 THEN <<>>
     ELSE << Error("Country Code", row.CountryCode, << "Invalid country alpha3 code" >>) >>)
    \o
    (IF row.CourseType \in GolfCourseTypes THEN <<>>
     ELSE << Error("Course Type", row.CourseType,
                   << "Input should be '9 hole - par 3 course', '9 hole' or '18 hole'" >>) >>)
    \o
    (IF Len(row.Address) < 5
       THEN << Error("Address", row.Address, << "String should have at least 5 characters" >>) >>
     ELSE IF Len(row.Address) > 150
       THEN << Error("Address", row.Address, << "String should have at most 150 characters" >>) >>
     ELSE <<>>)
    \o
    (IF row.Latitude < -90
       THEN << Error("Latitude", row.Latitude, << "Input should be greater than or equal to -90" >>) >>
     ELSE IF row.Latitude > 90
       THEN << Error("Latitude", row.Latitude, << "Input should be less than or equal to 90" >>) >>
     ELSE <<>>)
    \o
    (IF row.Longitude < -180
       THEN << Error("Longitude", row.Longitude, << "Input should be greater than or equal to -180" >>) >>
     ELSE IF row.Longitude > 180
       THEN << Error("Longitude", row.Longitude, << "Input should be less than or equal to 180" >>) >>
     ELSE <<>>)

\* check_postcode_by_country: TRUE when it raises ValueError
check_postcode_by_country(row) ==
    IF row.CountryCode = "GBR" THEN ~re_match(UK_POSTCODE_REGEX, row.PostCode)
    ELSE IF row.CountryCode = "FRA" THEN ~re_match(FR_POSTCODE_REGEX, row.PostCode)
    ELSE FALSE

\* validate_par_against_course_type: TRUE when it raises ValueError
ParRuleEighteenUpTo75(row) ==
    IF row.CourseType = NINE_HOLE_PAR_3 THEN row.Par # 27
    ELSE IF row.CourseType = NINE_HOLE THEN ~(28 <= row.Par /\ row.Par <= 45)
    ELSE IF row.CourseType = EIGHTEEN_HOLE THEN ~(68 <= row.Par /\ row.Par <= 75)
    ELSE FALSE
validate_par_against_course_type(row) ==
    IF row.CourseType = NINE_HOLE_PAR_3 THEN row.Par # 27
    ELSE IF row.CourseType = NINE_HOLE THEN ~(28 <= row.Par /\ row.Par <= 45)
    ELSE IF row.CourseType = EIGHTEEN_HOLE THEN ~(68 <= row.Par /\ row.Par <= 74)
    ELSE FALSE

\* str(e) of the ValueError check_postcode_by_country raises
check_postcode_by_country_error(row) ==
    IF row.CountryCode = "GBR"
    THEN << "Invalid UK postcode format: " >> \o row.PostCode
    ELSE << "France postcodes must be exactly 5 digits: " >> \o row.PostCode

\* str(e) of the ValueError validate_par_against_course_type raises; the
\* 9-hole message is two adjacent literals, with no space between them
validate_par_against_course_type_error(row) ==
    IF row.CourseType = NINE_HOLE_PAR_3
    THEN << "For a 9 Hole Par 3 course, par must be 27. Received: " >> \o format_int(row.Par)
    ELSE IF row.CourseType = NINE_HOLE
    THEN << "For a 9 Hole course, par must be between 28 and 45.Received: " >>
         \o format_int(row.Par)
    ELSE << "For an 18 Hole course, par must be between 68 and 74. Received: " >>
         \o format_int(row.Par)

\* GolfCourse(**row): the list e.errors() of the ValidationError, <<>> when
\* construction succeeds.  The mode='after' validators run only once every
\* field has validated, in the order they are defined, and the first one
\* that raises ends the construction; pydantic puts "Value error, " before
\* the text of the ValueError.
GolfCourse(row) ==
    IF FieldErrors(row) # <<>> THEN FieldErrors(row)
    ELSE IF check_postcode_by_country(row)
      THEN << Error("", row, << "Value error, " >> \o check_postcode_by_country_error(row)) >>
    ELSE IF validate_par_against_course_type(row)
      THEN << Error("", row,
                    << "Value error, " >> \o validate_par_against_course_type_error(row)) >>
    ELSE <<>>

(***************************************************************************)
(* validate_golf_courses (Schema Validator)                                *)
(***************************************************************************)
\* f"{i}) {error['input']}: {error['msg']}"
output_error(i, error) == [n |-> i, input |-> error.input, msg |-> error.msg]

\* ".\n".join(output_errors) when output_errors holds the first n errors:
\* the text is kept as its sequence of lines
error_details(errs, n) == [i \in 1..n |-> output_error(i, errs[i])]

error_row(row, errs, n) ==
    [row |-> row, total_errors |-> Len(errs), error_details |-> error_details(errs, n)]

\* record.model_dump(mode='json')
model_dump(row) == row

\* One turn of "for _, row in df.iterrows()" (lines 46-71).  On a
\* ValidationError the append of error_row sits inside the loop over
\* e.errors(), so it runs once per error, each time with the lines joined so far.
validate_row ==
    /\ val_pc = "loop"
    /\ val_i < Len(val_df)
    /\ LET row == val_df[val_i + 1]
           errs == GolfCourse(row)
       IN  IF errs = <<>>
           THEN /\ data_list' = Append(data_list, model_dump(row))
                /\ UNCHANGED errors
           ELSE /\ errors' = errors \o [i \in 1..Len(errs) |-> error_row(row, errs, i)]
                /\ UNCHANGED data_list
    /\ val_i' = val_i + 1
    /\ UNCHANGED <<val_df, val_pc, cleanVars, enrichVars, callVars>>

\* After the loop: the two DataFrames are built and returned (lines 73-99)
validate_return ==
    /\ val_pc = "loop"
    /\ val_i = Len(val_df)
    /\ val_pc' = "done"
    /\ UNCHANGED <<val_df, val_i, data_list, errors, cleanVars, enrichVars, callVars>>

\* ---- inputs of the Validator
MaxValRows == 2
ValAddresses == { <<"H", "i", "g", "h", " ", "S", "t">>, <<"a", "b", "c">> }
ValLatitudes == { 51, 91 }
ValTypePars == { <<EIGHTEEN_HOLE, 72>>, <<EIGHTEEN_HOLE, 75>>, <<"mini golf", 72>> }
ValPostCodes ==
    { <<"GBR", <<"T", "N", "1", "6", " ", "1", "Q", "N">>>>,
      <<"GBR", <<"7", "5", "0", "0", "8">>>>,
      <<"FRA", <<"T", "N", "1", "6", " ", "1", "Q", "N">>>> }
ValRows ==
    { [CourseName |-> <<"G">>, CountryCode |-> pc[1], CourseType |-> tp[1],
       Address |-> a, PostCode |-> pc[2], Latitude |-> lat, Longitude |-> 0,
       Par |-> tp[2]]
      : a \in ValAddresses, lat \in ValLatitudes, tp \in ValTypePars,
        pc \in ValPostCodes }
ValInputs == UNION { [1..n -> ValRows] : n \in 0..MaxValRows }

(***************************************************************************)
(* geocoding_utils (Address Normalizer)                                    *)
(* An address component is [long_name, types]: its text and its set of     *)
(* tags.                                                                   *)
(***************************************************************************)
\* The value the scan of extract_postcode leaves in postcode_main
\* (want_suffix = FALSE) or postcode_suffix (TRUE): the long_name of the last
\* component that took that branch, "" when none did.  A component tagged
\* postal_code takes the first branch and never reaches the elif.
RECURSIVE postcode_scan(_, _)
postcode_scan(components, want_suffix) ==
    IF components = <<>> THEN <<>>
    ELSE LET component == components[Len(components)]
             rest == SubSeq(components, 1, Len(components) - 1)
             is_main == "postal_code" \in component.types
             is_suffix == ~is_main /\ "postal_code_suffix" \in component.types
         IN  IF (want_suffix /\ is_suffix) \/ (~want_suffix /\ is_main)
             THEN component.long_name
             ELSE postcode_scan(rest, want_suffix)

ExtractPostcodeUnspaced(components) ==
    LET postcode_main == postcode_scan(components, FALSE)
        postcode_suffix == postcode_scan(components, TRUE)
    IN  IF postcode_main # <<>> /\ postcode_suffix # <<>>
        THEN postcode_main \o postcode_suffix
        ELSE IF postcode_main # <<>> THEN postcode_main
        ELSE IF postcode_suffix # <<>> THEN postcode_suffix
        ELSE None
extract_postcode(components) ==
    LET postcode_main == postcode_scan(components, FALSE)
        postcode_suffix == postcode_scan(components, TRUE)
    IN  IF postcode_main # <<>> /\ postcode_suffix # <<>>
        THEN postcode_main \o <<" ">> \o postcode_suffix
        ELSE IF postcode_main # <<>> THEN postcode_main
        ELSE IF postcode_suffix # <<>> THEN postcode_suffix
        ELSE None

excluded_types == { "postal_code", "country", "postal_code_suffix" }

\* the components the sorting loop of build_clean_address does not skip
NotExcludedKeepsCountry(components) ==
    SelectSeq(components, LAMBDA c : c.types \cap {"postal_code", "postal_code_suffix"} = {})
not_excluded(components) ==
    SelectSeq(components, LAMBDA c : c.types \cap excluded_types = {})

\* The value the sorting loop leaves in street_number or route: the long_name
\* of the last component that took that branch, "" when none did
RECURSIVE FirstName(_, _)
FirstName(cs, tag) ==
    IF cs = <<>> THEN <<>>
    ELSE LET c == Head(cs)
             is_number == "street_number" \in c.types
             is_route == ~is_number /\ "route" \in c.types
         IN  IF (tag = "street_number" /\ is_number) \/ (tag = "route" /\ is_route)
             THEN c.long_name
             ELSE FirstName(Tail(cs), tag)
RECURSIVE last_name(_, _)
last_name(cs, tag) ==
    IF cs = <<>> THEN <<>>
    ELSE LET c == cs[Len(cs)]
             is_number == "street_number" \in c.types
             is_route == ~is_number /\ "route" \in c.types
         IN  IF (tag = "street_number" /\ is_number) \/ (tag = "route" /\ is_route)
             THEN c.long_name
             ELSE last_name(SubSeq(cs, 1, Len(cs) - 1), tag)

BuildWithSpaceAlways(components) ==
    LET kept == not_excluded(components)
        street_number == last_name(kept, "street_number")
        route == last_name(kept, "route")
        others == SelectSeq(kept, LAMBDA c : "street_number" \notin c.types
                                              /\ "route" \notin c.types)
        other_parts == [k \in 1..Len(others) |-> others[k].long_name]
        street_block ==
            IF street_number # <<>> /\ route # <<>>
            THEN street_number \o <<" ">> \o route
            ELSE IF street_number # <<>> THEN street_number ELSE route
        full_address_list == <<street_block>> \o other_parts
    IN  Join(<<",", " ">>, SelectSeq(full_address_list, LAMBDA part : part # <<>>))
build_clean_address(components) ==
    LET kept == not_excluded(components)
        street_number == last_name(kept, "street_number")
        route == last_name(kept, "route")
        others == SelectSeq(kept, LAMBDA c : "street_number" \notin c.types
                                              /\ "route" \notin c.types)
        other_parts == [k \in 1..Len(others) |-> others[k].long_name]
        street_block ==
            IF street_number # <<>> /\ route # <<>>
            THEN IF \E k \in 1..Len(street_number) : street_number[k] \in IsDigit
                 THEN street_number \o <<" ">> \o route
                 ELSE street_number \o <<",", " ">> \o route
            ELSE IF street_number # <<>> THEN street_number ELSE route
        full_address_list == <<street_block>> \o other_parts
    IN  Join(<<",", " ">>, SelectSeq(full_address_list, LAMBDA part : part # <<>>))

HIGH == <<"H", "i", "g", "h">>
MEDIUM == <<"M", "e", "d", "i", "u", "m">>
LOW == <<"L", "o", "w">>

\* result is [types, name, partial_match]: the keys calculate_confidence
\* reads, each with the default of its .get when the key is absent
ConfidenceIgnoringPartialMatch(result, search_query, target_types, keyword) ==
    LET types == result.types
        found_name == lower(result.name)
        query == lower(search_query)
        kw == lower(keyword)
        type_match == \E t \in target_types : t \in types
        keyword_match ==
            IF kw # <<>> THEN Contains(kw, found_name) \/ Contains(kw, query)
            ELSE FALSE
    IN  IF type_match \/ keyword_match THEN HIGH
        ELSE IF "establishment" \in types \/ "point_of_interest" \in types
             THEN MEDIUM
        ELSE LOW
calculate_confidence(result, search_query, target_types, keyword) ==
    LET types == result.types
        found_name == lower(result.name)
        query == lower(search_query)
        kw == lower(keyword)
        type_match == \E t \in target_types : t \in types
        keyword_match ==
            IF kw # <<>> THEN Contains(kw, found_name) \/ Contains(kw, query)
            ELSE FALSE
        is_activity_related == type_match \/ keyword_match
    IN  IF is_activity_related /\ ~result.partial_match THEN HIGH
        ELSE IF "establishment" \in types \/ "point_of_interest" \in types
             THEN MEDIUM
        ELSE LOW

(***************************************************************************)
(* enrich_golf_course_addresses (Enrichment Orchestrator)                  *)
(* A row is a record of its index label and of the columns                 *)
(*   GolfCourseName ('Golf Course Name'), GolfCourse ('Golf Course': None  *)
(*   when the DataFrame has no such column, row.get giving None; NaN when  *)
(*   the column is there and the cell is empty), Address,                  *)
(*   Latitude, Longitude, PostCode ('Post Code'), Confidence.              *)
(* Coordinates are carried as text: they are copied, never computed with.  *)
(*                                                                         *)
(* A lookup call either raises ([kind |-> "raise", exc, msg], msg being    *)
(* str(e)) or returns ([kind |-> "return", ...] with the response's keys). *)
(***************************************************************************)
CheckpointEvery == 10

API_KEY_TEXT == <<"A", "P", "I", " ", "k", "e", "y">>

\* mask = df['Address'].isna() | (df['Address'] == '')
NeedsEnrichmentWhenPresent(row) == ~isna(row.Address)
needs_enrichment(row) == isna(row.Address) \/ row.Address = <<>>
mask(frame) == { i \in 1..Len(frame) : needs_enrichment(frame[i]) }

\* 'API key' in str(e)
is_credential_error(msg) == Contains(API_KEY_TEXT, msg)

\* candidate.get('geometry', {}).get('location_type')
found_loc_type_of(candidate) ==
    IF candidate.geometry = Absent THEN None ELSE candidate.geometry.location_type

\* lines 111-114: the first call's address and coordinates are written to the row
FirstCallWritesNothing(row, candidate) == row
fill_basic_info(row, candidate) ==
    LET r1 == [row EXCEPT !.Address = candidate.formatted_address]
    IN  IF candidate.geometry # Absent
        THEN [r1 EXCEPT !.Latitude = candidate.geometry.location.lat,
                        !.Longitude = candidate.geometry.location.lng]
        ELSE r1

\* details.get('result', {}), read through the keys the code uses
EmptyResult ==
    [address_components |-> <<>>, geometry |-> Absent, types |-> {},
     name |-> <<>>, partial_match |-> FALSE]
full_result_of(details) ==
    IF details.result = Absent THEN EmptyResult ELSE details.result

\* A lookup call as the log keeps it: the operation, the turn (count) that
\* made it, its input and what the service answered
Call(op, n, input, answer) == [op |-> op, row |-> n, input |-> input, answer |-> answer]

Turn(row, made, how) == [row |-> row, calls |-> made, end |-> how]

\* One turn of the loop (lines 90-160) on `row`, the n-th row of df, when
\* find_place answers `find` and place answers `details`.  `end` tells how
\* the turn leaves the try block:
\*   "skip"      continue at line 92
\*   "ok"        the try block ran to its end (throttle and checkpoint included)
\*   "error"     except branch, the loop goes on
\*   "break"     except branch, 'API key' in str(e)
\*   "keyerror"  line 140 raised KeyError, which no except clause catches
\*   "attributeerror"  calculate_confidence raised AttributeError at
\*               search_query.lower() (geocoding_utils.py:148), course_name
\*               being a float; no except clause catches it
process_row(row, n, find, details) ==
    LET course_name == row.GolfCourse
        find_call == Call("find_place", n, course_name, find)
    IN  IF ~Truthy(course_name) THEN Turn(row, <<>>, "skip")
        ELSE IF find.kind = "raise"
          THEN Turn(row, <<find_call>>,
                    IF is_credential_error(find.msg) THEN "break" ELSE "error")
        ELSE IF ~(find.status = "OK" /\ find.candidates # <<>>)
          THEN Turn(row, <<find_call>>, "ok")
        ELSE
          LET candidate == find.candidates[1]
              place_id == candidate.place_id
              found_loc_type == found_loc_type_of(candidate)
              row1 == fill_basic_info(row, candidate)
              place_call == Call("place", n, place_id, details)
          IN  IF ~Truthy(place_id) THEN Turn(row1, <<find_call>>, "ok")
              ELSE IF details.kind = "raise"
                THEN Turn(row1, <<find_call, place_call>>,
                          IF is_credential_error(details.msg) THEN "break" ELSE "error")
              ELSE IF details.status # "OK"
                THEN Turn(row1, <<find_call, place_call>>, "ok")
              ELSE
                LET full_result == full_result_of(details)
                    components == full_result.address_components
                    row2 == [row1 EXCEPT !.PostCode = extract_postcode(components),
                                         !.Address = build_clean_address(components)]
                IN  IF Truthy(found_loc_type) /\ full_result.geometry = Absent
                    THEN Turn(row2, <<find_call, place_call>>, "keyerror")
                    ELSE IF course_name = NaN
                    THEN Turn(row2, <<find_call, place_call>>, "attributeerror")
                    ELSE Turn([row2 EXCEPT !.Confidence =
                                   calculate_confidence(full_result, course_name,
                                                        {"golf_course"},
                                                        <<"g", "o", "l", "f">>)],
                              <<find_call, place_call>>, "ok")

\* Lines 74-86: the mask, the early return, the working copy
enrich_start ==
    /\ enrich_pc = "start"
    /\ rows_to_process' = Cardinality(mask(in_df))
    /\ IF rows_to_process' = 0
       THEN /\ returned' = in_df
            /\ enrich_pc' = "done"
            /\ UNCHANGED df
       ELSE /\ df' = RowsAt(in_df, Len(in_df), mask(in_df))
            /\ enrich_pc' = "loop"
            /\ UNCHANGED returned
    /\ UNCHANGED <<in_df, throttle_threshold, count, calls, sleeps, checkpoint,
                   csv_log, cleanVars, valVars, callVars>>

\* ---- what the lookup service may answer
BAD_KEY_MSG == <<"b", "a", "d", " ">> \o API_KEY_TEXT
OTHER_MSG == <<"l", "i", "m", "i", "t">>
Raise(exc, msg) == [kind |-> "raise", exc |-> exc, msg |-> msg]
Errors ==
    { Raise("ApiError", BAD_KEY_MSG), Raise("ApiError", OTHER_MSG),
      Raise("TransportError", BAD_KEY_MSG), Raise("TransportError", OTHER_MSG) }

Geometry(loc_type) ==
    [location |-> [lat |-> <<"5", "1">>, lng |-> <<"0">>], location_type |-> loc_type]
Candidate(place_id, address, geometry) ==
    [place_id |-> place_id, formatted_address |-> address, geometry |-> geometry]
FORMATTED == <<"1", " ", "A", ",", " ", "U", "K">>
Candidates ==
    { Candidate(<<"p">>, FORMATTED, Geometry(<<"R">>)),
      Candidate(<<"p">>, FORMATTED, Geometry(None)),
      Candidate(None, FORMATTED, Geometry(<<"R">>)),
      Candidate(<<"p">>, None, Absent) }
Found(status, candidates) ==
    [kind |-> "return", status |-> status, candidates |-> candidates]
FindAnswers ==
    Errors \cup { Found("ZERO_RESULTS", <<>>), Found("OK", <<>>) }
           \cup { Found("OK", <<c>>) : c \in Candidates }

Component(long_name, types) == [long_name |-> long_name, types |-> types]
FullComponents ==
    << Component(<<"1">>, {"street_number"}), Component(<<"A">>, {"route"}),
       Component(<<"T", "N", "1">>, {"postal_code"}),
       Component(<<"U", "K">>, {"country", "political"}) >>
Result(components, geometry, types, name) ==
    [address_components |-> components, geometry |-> geometry, types |-> types,
     name |-> name, partial_match |-> FALSE]
Results ==
    { Result(FullComponents, Geometry(None), {"golf_course", "establishment"}, <<"G", "C">>),
      Result(<<FullComponents[3]>>, Geometry(None), {"establishment"}, <<"P">>),
      Absent }
Details(status, result) == [kind |-> "return", status |-> status, result |-> result]
DetailsAnswers ==
    Errors \cup { Details("NOT_FOUND", Absent) } \cup { Details("OK", r) : r \in Results }

\* One turn of "for count, (index, row) in enumerate(df.iterrows(), 1)",
\* with what follows it inside the try block (lines 148-155) when the turn
\* reaches it, and the except clause (157-160) when a lookup raised.
enrich_row ==
    /\ enrich_pc = "loop"
    /\ count < Len(df)
    /\ \E find \in FindAnswers, details \in DetailsAnswers :
          LET n == count + 1
              turn == process_row(df[n], n, find, details)
          IN  /\ df' = [df EXCEPT ![n] = turn.row]
              /\ calls' = calls \o turn.calls
              /\ count' = n
              /\ sleeps' = IF turn.end = "ok" /\ rows_to_process > throttle_threshold
                           THEN sleeps \cup {n} ELSE sleeps
              /\ IF turn.end = "ok" /\ n % CheckpointEvery = 0
                 THEN /\ checkpoint' = df'
                      /\ csv_log' = Append(csv_log, [at |-> n, final |-> FALSE])
                 ELSE UNCHANGED <<checkpoint, csv_log>>
              /\ enrich_pc' = CASE turn.end = "break" -> "after_loop"
                                [] turn.end \in {"keyerror", "attributeerror"} -> "raised"
                                [] OTHER -> "loop"
    /\ UNCHANGED <<in_df, throttle_threshold, rows_to_process, returned,
                   cleanVars, valVars, callVars>>

\* Lines 163-166: the final save and the return, after the loop ran out of
\* rows or was left by break
enrich_finish ==
    /\ \/ enrich_pc = "loop" /\ count = Len(df)
       \/ enrich_pc = "after_loop"
    /\ checkpoint' = df
    /\ csv_log' = Append(csv_log, [at |-> count, final |-> TRUE])
    /\ returned' = df
    /\ enrich_pc' = "done"
    /\ UNCHANGED <<in_df, throttle_threshold, df, rows_to_process, count, calls,
                   sleeps, cleanVars, valVars, callVars>>

\* ---- inputs of the Orchestrator
MaxRows == 2
MaxThreshold == 1
GOLF == <<"G", "o", "l", "f">>
EnrichRow(name, course, address, post_code, confidence) ==
    [GolfCourseName |-> name, GolfCourse |-> course, Address |-> address,
     Latitude |-> None, Longitude |-> None, PostCode |-> post_code,
     Confidence |-> confidence]
RowKinds ==
    { EnrichRow(GOLF, GOLF, <<"O", "l", "d">>, <<"X", "1">>, HIGH),  \* already has an address
      EnrichRow(<<"B">>, <<"B">>, None, <<"X", "1">>, LOW),
      EnrichRow(GOLF, None, <<>>, None, None),     \* no 'Golf Course' column
      EnrichRow(<<"B">>, <<>>, None, None, None),
      EnrichRow(<<"B">>, NaN, NaN, NaN, NaN) }     \* empty cells as pandas reads them
WithIndex(rows) ==
    [i \in 1..Len(rows) |-> [index |-> i] @@ rows[i]]
EnrichInputs ==
    UNION { { WithIndex(f) : f \in [1..n -> RowKinds] } : n \in 0..MaxRows }

MaxLongRows == 11
MaxNamed == 1
LongInputs ==
    UNION { { WithIndex([i \in 1..n |->
                  IF i \in named THEN EnrichRow(GOLF, GOLF, <<>>, None, None)
                  ELSE EnrichRow(GOLF, None, <<>>, None, None)])
              : named \in { S \in SUBSET (1..n) : Cardinality(S) <= MaxNamed } }
            : n \in CheckpointEvery..MaxLongRows }

\* Datasets of rows that are all looked up: rows with a course name, and rows
\* whose 'Golf Course' cell is empty (NaN), every Address missing
MaxLookedUpRows == 3
LookedUpKinds ==
    { EnrichRow(<<"B">>, <<"B">>, None, None, None),
      EnrichRow(<<"B">>, NaN, NaN, NaN, NaN) }
LookedUpInputs ==
    UNION { { WithIndex(f) : f \in [1..n -> LookedUpKinds] } : n \in 1..MaxLookedUpRows }

EnrichIdle ==
    /\ in_df = <<>> /\ throttle_threshold = 0 /\ df = <<>> /\ rows_to_process = 0
    /\ count = 0 /\ enrich_pc = "idle" /\ calls = <<>> /\ sleeps = {}
    /\ checkpoint = <<>> /\ csv_log = <<>> /\ returned = <<>>

EnrichEntry ==
    /\ df = <<>> /\ rows_to_process = 0 /\ count = 0 /\ enrich_pc = "start"
    /\ calls = <<>> /\ sleeps = {} /\ checkpoint = <<>> /\ csv_log = <<>>
    /\ returned = <<>>

(***************************************************************************)
(* Specifications                                                          *)
(***************************************************************************)
CleanIdle ==
    /\ raw_df = <<>> /\ df_cleaned = <<>> /\ duplicate_list = <<>>
    /\ rows_removed = 0 /\ clean_pc = "idle"

ValIdle ==
    /\ val_df = <<>> /\ val_i = 0 /\ data_list = <<>> /\ errors = <<>>
    /\ val_pc = "idle"

CallIdle == call_args = <<>> /\ call_result = <<>> /\ call_pc = "idle"

InitClean ==
    /\ raw_df \in CleanInputs
    /\ df_cleaned = <<>> /\ duplicate_list = <<>> /\ rows_removed = 0
    /\ clean_pc = "start"
    /\ ValIdle /\ EnrichIdle /\ CallIdle

NextClean == process_golf_courses

SpecClean == InitClean /\ [][NextClean]_vars

InitVal ==
    /\ val_df \in ValInputs
    /\ val_i = 0 /\ data_list = <<>> /\ errors = <<>>
    /\ val_pc = "loop"
    /\ CleanIdle /\ EnrichIdle /\ CallIdle

NextVal == validate_row \/ validate_return

SpecVal == InitVal /\ [][NextVal]_vars

Init ==
    /\ in_df \in EnrichInputs
    /\ throttle_threshold \in 0..MaxThreshold
    /\ EnrichEntry
    /\ CleanIdle /\ ValIdle /\ CallIdle

Next == enrich_start \/ enrich_row \/ enrich_finish

Spec == Init /\ [][Next]_vars

\* Long datasets: enough rows needing enrichment to reach the checkpoint
\* period, of which at most MaxNamed have a course name to look up.
InitLong ==
    /\ in_df \in LongInputs
    /\ throttle_threshold \in 0..MaxThreshold
    /\ EnrichEntry
    /\ CleanIdle /\ ValIdle /\ CallIdle

SpecLong == InitLong /\ [][Next]_vars

\* Datasets in which every row is looked up, long enough for a row to follow
\* two rows whose lookups went wrong
InitLookedUp ==
    /\ in_df \in LookedUpInputs
    /\ throttle_threshold = 0
    /\ EnrichEntry
    /\ CleanIdle /\ ValIdle /\ CallIdle

SpecLookedUp == InitLookedUp /\ [][Next]_vars

(***************************************************************************)
(* Calls of the pure functions: the arguments are drawn at Init, the one   *)
(* action of each specification applies the function to them.              *)
(***************************************************************************)
CallEntry == call_result = <<>> /\ call_pc = "called"

\* ---- GolfCourse.check_postcode_by_country on a record whose fields validated
call_check_postcode_by_country ==
    /\ call_pc = "called"
    /\ call_result' = check_postcode_by_country(call_args)
    /\ call_pc' = "returned"
    /\ UNCHANGED <<call_args, cleanVars, valVars, enrichVars>>

\* post_code is any str: the texts below are assembled from the parts of a UK
\* postcode, well-formed or not, and from runs of digits, with or without
\* something after them
MaxPostcodeLen == 9
Outward ==
    { <<>>, <<"T">>, <<"T", "N">>, <<"T", "N", "X">>, <<"t">> }
District ==
    { <<>>, <<"1">>, <<"1", "6">>, <<"1", "A">>, <<"1", "A", "B">> }
Gap == { <<>>, <<" ">>, <<" ", " ">> }
Inward ==
    { <<"1", "Q", "N">>, <<"1", "Q">>, <<"Q", "N", "1">>, <<"1", "q", "n">> }
Trailer == { <<>>, <<"\n">>, <<" ">>, <<"a">> }
DigitRun == <<"7", "5", "0", "0", "8", "1">>
PostCodes ==
    { pc \in { o \o d \o g \o i \o t
               : o \in Outward, d \in District, g \in Gap, i \in Inward, t \in Trailer }
           \cup { SubSeq(DigitRun, 1, n) \o t : n \in 3..Len(DigitRun), t \in Trailer }
      : Len(pc) <= MaxPostcodeLen }
PostcodeRecords ==
    { [CountryCode |-> cc, PostCode |-> pc] : cc \in CountryAlpha3, pc \in PostCodes }

InitPostcode ==
    /\ call_args \in PostcodeRecords
    /\ CallEntry
    /\ CleanIdle /\ ValIdle /\ EnrichIdle

NextPostcode == call_check_postcode_by_country

SpecPostcode == InitPostcode /\ [][NextPostcode]_vars

\* ---- GolfCourse.validate_par_against_course_type on a record whose fields validated
call_validate_par_against_course_type ==
    /\ call_pc = "called"
    /\ call_result' = validate_par_against_course_type(call_args)
    /\ call_pc' = "returned"
    /\ UNCHANGED <<call_args, cleanVars, valVars, enrichVars>>

\* par is any int, course_type any member of the enumeration
MaxPar == 80
ParRecords ==
    { [CourseType |-> t, Par |-> p] : t \in GolfCourseTypes, p \in (-MaxPar)..MaxPar }

InitPar ==
    /\ call_args \in ParRecords
    /\ CallEntry
    /\ CleanIdle /\ ValIdle /\ EnrichIdle

NextPar == call_validate_par_against_course_type

SpecPar == InitPar /\ [][NextPar]_vars

\* ---- build_clean_address on a list of address components
call_build_clean_address ==
    /\ call_pc = "called"
    /\ call_result' = build_clean_address(call_args)
    /\ call_pc' = "returned"
    /\ UNCHANGED <<call_args, cleanVars, valVars, enrichVars>>

\* The components of a place: street numbers (numeric, alphanumeric, a name),
\* routes, localities, postal codes (one as a house number reads), a postal
\* code suffix and a country
MaxComponents == 3
AddressComponents ==
    { Component(<<"1", "2">>, {"street_number"}),
      Component(<<"1", "a">>, {"street_number"}),
      Component(<<"V">>, {"street_number"}),
      Component(<<"D">>, {"route"}),
      Component(<<"R">>, {"route"}),
      Component(<<"L">>, {"locality", "political"}),
      Component(<<"K">>, {"administrative_area_level_2", "political"}),
      Component(<<"1", "2">>, {"postal_code"}),
      Component(<<"T", "1">>, {"postal_code"}),
      Component(<<"1", "Q">>, {"postal_code_suffix"}),
      Component(<<"U", "K">>, {"country", "political"}) }
ComponentLists == UNION { [1..n -> AddressComponents] : n \in 0..MaxComponents }

InitAddress ==
    /\ call_args \in ComponentLists
    /\ CallEntry
    /\ CleanIdle /\ ValIdle /\ EnrichIdle

NextAddress == call_build_clean_address

SpecAddress == InitAddress /\ [][NextAddress]_vars

\* ---- calculate_confidence on a lookup result, a search text, target
\* categories and a keyword
call_calculate_confidence ==
    /\ call_pc = "called"
    /\ call_result' = calculate_confidence(call_args.result, call_args.search_query,
                                           call_args.target_types, call_args.keyword)
    /\ call_pc' = "returned"
    /\ UNCHANGED <<call_args, cleanVars, valVars, enrichVars>>

MaxTags == 2
PlaceTags == { "golf_course", "establishment", "point_of_interest", "lodging" }
ConfidenceArgs ==
    { [result |-> [types |-> tags, name |-> name, partial_match |-> partial],
       search_query |-> query, target_types |-> targets, keyword |-> kw]
      : tags \in { T \in SUBSET PlaceTags : Cardinality(T) <= MaxTags },
        name \in { <<>>, <<"A", "c", "m", "e">>, <<"G", "O", "L", "F", " ", "C">>,
                   <<"\\u0130", "\\xc9", "g", "O", "L", "F">> },
        partial \in BOOLEAN,
        query \in { <<"B">>, GOLF },
        targets \in { {}, {"golf_course"}, {"golf_course", "park"} },
        kw \in { <<>>, <<"g", "o", "l", "f">>, GOLF } }

InitConfidence ==
    /\ call_args \in ConfidenceArgs
    /\ CallEntry
    /\ CleanIdle /\ ValIdle /\ EnrichIdle

NextConfidence == call_calculate_confidence

SpecConfidence == InitConfidence /\ [][NextConfidence]_vars

\* ---- extract_postcode on a list of address components
call_extract_postcode ==
    /\ call_pc = "called"
    /\ call_result' = extract_postcode(call_args)
    /\ call_pc' = "returned"
    /\ UNCHANGED <<call_args, cleanVars, valVars, enrichVars>>

InitExtract ==
    /\ call_args \in ComponentLists
    /\ CallEntry
    /\ CleanIdle /\ ValIdle /\ EnrichIdle

NextExtract == call_extract_postcode

SpecExtract == InitExtract /\ [][NextExtract]_vars

(***************************************************************************)
(* Claims                                                                  *)
(***************************************************************************)
\* C1: validate_golf_courses partitions its input: every row consumed so far
\* has produced exactly one output entry, a valid record or one error entry,
\* so valid records plus error entries equal the rows consumed (and, at the
\* end, the input rows), whatever number of field errors a row has.
C1_OneEntryPerRow ==
    /\ Len(data_list) + Len(errors) = val_i
    /\ (val_pc = "done" => Len(data_list) + Len(errors) = Len(val_df))

\* C2: every error entry of a row that fails with k errors carries
\* total_errors = k and an error_details text of all k errors, numbered 1..k
\* in order, each with its value and message; none carries a proper prefix.
C2_EveryEntryCarriesAllErrors ==
    \A e \in 1..Len(errors) :
        LET errs == GolfCourse(errors[e].row)
        IN  /\ errors[e].total_errors = Len(errs)
            /\ Len(errors[e].error_details) = Len(errs)
            /\ \A i \in 1..Len(errors[e].error_details) :
                  errors[e].error_details[i] =
                      [n |-> i, input |-> errs[i].input, msg |-> errs[i].msg]

\* C10: process_golf_courses returns exactly the rows whose name is neither
\* missing nor whitespace-only and is the first occurrence of that exact
\* value, in their input order; three rows of which the second repeats the
\* name of the first yield rows 1 and 3 and one reported duplicate value.
C10_Blank ==
    { " ", "\t", "\n", "\r", "\f", "\\x0b", "\\x1c", "\\x1d", "\\x1e", "\\x1f",
      "\\x85", "\\xa0", "\\u1680", "\\u2000", "\\u2001", "\\u2002", "\\u2003",
      "\\u2004", "\\u2005", "\\u2006", "\\u2007", "\\u2008", "\\u2009", "\\u200a",
      "\\u2028", "\\u2029", "\\u202f", "\\u205f", "\\u3000" }
C10_WhitespaceOnly(s) == \A k \in 1..Len(s) : s[k] \in C10_Blank
C10_Kept(i) ==
    /\ raw_df[i].name \notin { <<"None">>, <<"NaN">> }
    /\ ~C10_WhitespaceOnly(raw_df[i].name)
    /\ \A j \in 1..(i - 1) : raw_df[j].name # raw_df[i].name
C10_Example ==
    /\ Len(raw_df) = 3
    /\ C10_Kept(1) /\ C10_Kept(3)
    /\ raw_df[2].name = raw_df[1].name
C10_CleanerKeepsFirstOccurrences ==
    clean_pc = "done" =>
        /\ \A i \in 1..Len(raw_df) :
              C10_Kept(i) <=> \E k \in 1..Len(df_cleaned) : df_cleaned[k] = raw_df[i]
        /\ \A k \in 1..Len(df_cleaned) :
              \E i \in 1..Len(raw_df) : df_cleaned[k] = raw_df[i]
        /\ \A k, l \in 1..Len(df_cleaned) :
              k < l => df_cleaned[k].index < df_cleaned[l].index
        /\ (C10_Example =>
              /\ df_cleaned = << raw_df[1], raw_df[3] >>
              /\ Len(duplicate_list) = 1)
C10_Witness ==
    /\ clean_pc = "done"
    /\ C10_Example
    /\ df_cleaned = << raw_df[1], raw_df[3] >>
    /\ duplicate_list = << raw_df[1].name >>

\* ---- helpers of the Orchestrator's claims
C_Entry(n) == in_df[df[n].index]
C_Raised(n, op, how) ==
    \E k \in 1..Len(calls) :
        /\ calls[k].row = n /\ calls[k].op = op /\ calls[k].answer.kind = "raise"
        /\ (how = "credential") = Contains(API_KEY_TEXT, calls[k].answer.msg)
C_SameFive(r, e) ==
    /\ r.Address = e.Address /\ r.Latitude = e.Latitude /\ r.Longitude = e.Longitude
    /\ r.PostCode = e.PostCode /\ r.Confidence = e.Confidence
\* row n as df, the checkpoint file (once written at or after turn n) and the
\* returned DataFrame hold it, each satisfying P
C_Everywhere(n, P(_)) ==
    /\ P(df[n])
    /\ (csv_log # <<>> /\ csv_log[Len(csv_log)].at >= n => P(checkpoint[n]))
    /\ (enrich_pc = "done" => P(returned[n]))
C_Running == enrich_pc \in {"loop", "after_loop", "done", "raised"} /\ rows_to_process > 0

\* C3 (as claimed): a row on which a non-credential error was raised, by
\* find_place or by place, keeps its entry values of Address, Latitude,
\* Longitude, Post Code and Confidence in df, the checkpoint and the result.
C3_ErrorLeavesRowAsAtEntry ==
    C_Running =>
        \A n \in 1..count :
            (C_Raised(n, "find_place", "other") \/ C_Raised(n, "place", "other"))
            => C_Everywhere(n, LAMBDA r : C_SameFive(r, C_Entry(n)))

\* C3 (amended): when find_place raised the non-credential error the row keeps
\* all five entry values; when place raised it, the row keeps its entry Post
\* Code and Confidence, and holds the first candidate's formatted address and,
\* when the candidate has geometry, its coordinates (written before the call).
C3_FirstCandidateOf(n) ==
    LET k == CHOOSE k \in 1..Len(calls) : calls[k].row = n /\ calls[k].op = "find_place"
    IN  calls[k].answer.candidates[1]
C3_HoldsFirstCall(r, e, cand) ==
    /\ r.PostCode = e.PostCode /\ r.Confidence = e.Confidence
    /\ r.Address = cand.formatted_address
    /\ IF cand.geometry = Absent
       THEN r.Latitude = e.Latitude /\ r.Longitude = e.Longitude
       ELSE /\ r.Latitude = cand.geometry.location.lat
            /\ r.Longitude = cand.geometry.location.lng
C3_ErrorKeepsOnlyFirstCallWrites ==
    C_Running =>
        \A n \in 1..count :
            /\ C_Raised(n, "find_place", "other")
               => C_Everywhere(n, LAMBDA r : C_SameFive(r, C_Entry(n)))
            /\ C_Raised(n, "place", "other")
               => C_Everywhere(n, LAMBDA r :
                       C3_HoldsFirstCall(r, C_Entry(n), C3_FirstCandidateOf(n)))
C3_Witness ==
    /\ enrich_pc = "done"
    /\ \E n \in 1..count :
          /\ C_Raised(n, "place", "other")
          /\ C_Entry(n).Address = None
          /\ returned[n].Address = FORMATTED
          /\ checkpoint[n].Address = FORMATTED
          /\ returned[n].PostCode = C_Entry(n).PostCode
          /\ returned[n].PostCode # None

\* C4: the checkpoint is written after every turn whose count is a multiple
\* of 10, before the next row starts, whatever happened to the row (enriched,
\* no candidate, skipped for a missing name, non-credential error); so never
\* more than 9 turns have ended since the last write (or since the start).
C4_LastWriteAt == IF csv_log = <<>> THEN 0 ELSE csv_log[Len(csv_log)].at
C4_CheckpointEveryTenthRow ==
    (C_Running /\ enrich_pc = "loop") =>
        /\ \A n \in 1..count :
              (n % CheckpointEvery = 0 /\ ~C_Raised(n, "find_place", "credential")
                                       /\ ~C_Raised(n, "place", "credential"))
              => \E w \in 1..Len(csv_log) : csv_log[w].at = n /\ ~csv_log[w].final
        /\ count - C4_LastWriteAt <= CheckpointEvery - 1

\* C5: an invocation that finds a row needing enrichment ends, whatever the
\* lookups answer, by one more checkpoint write after the loop, whose content
\* is the DataFrame it returns.
C5_EndsWithFinalCheckpoint ==
    (enrich_pc \in {"done", "raised"} /\ rows_to_process > 0) =>
        /\ enrich_pc = "done"
        /\ csv_log # <<>> /\ csv_log[Len(csv_log)].final
        /\ checkpoint = returned

\* C6: the loop stops exactly on a credential error.  Once a lookup raised an
\* API error whose message indicates an invalid credential, no later lookup
\* call is made and the loop is left at that row; and in an invocation where
\* a lookup raised an API or transport error that is not a credential error,
\* and none raised a credential error, every remaining row is still
\* processed in order: when the invocation is over every row has had its
\* turn, and each row after the error that has a course name was looked up.
C6_CredentialError(answer) ==
    /\ answer.kind = "raise" /\ answer.exc = "ApiError"
    /\ Contains(<<"A", "P", "I", " ", "k", "e", "y">>, answer.msg)
C6_OtherError(answer) ==
    /\ answer.kind = "raise" /\ answer.exc \in {"ApiError", "TransportError"}
    /\ ~C6_CredentialError(answer)
C6_StopsExactlyOnCredentialError ==
    C_Running =>
        /\ \A k \in 1..Len(calls) :
              C6_CredentialError(calls[k].answer)
              => /\ k = Len(calls)
                 /\ enrich_pc \in {"after_loop", "done"}
                 /\ count = calls[k].row
        /\ \A k, l \in 1..Len(calls) : k < l => calls[k].row <= calls[l].row
        /\ \A k \in 1..Len(calls) :
              (/\ enrich_pc \in {"done", "raised"}
               /\ C6_OtherError(calls[k].answer)
               /\ ~(\E l \in 1..Len(calls) : C6_CredentialError(calls[l].answer)))
              => /\ count = rows_to_process
                 /\ \A n \in (calls[k].row + 1)..rows_to_process :
                       (df[n].GolfCourse # <<"None">> /\ df[n].GolfCourse # <<>>)
                       => \E l \in 1..Len(calls) :
                             /\ calls[l].row = n /\ calls[l].op = "find_place"
                             /\ calls[l].input = df[n].GolfCourse

\* C7: throttling depends only on the count of rows needing enrichment
\* against throttle_threshold: above it, the delay follows every row the loop
\* processed (here: every row for which a lookup call was made and which did
\* not end the loop); at or below it, no delay is ever applied.
C7_DelayAfterEveryProcessedRow ==
    C_Running =>
        IF rows_to_process > throttle_threshold
        THEN \A n \in 1..count :
                ((\E k \in 1..Len(calls) : calls[k].row = n)
                   /\ ~C_Raised(n, "find_place", "credential")
                   /\ ~C_Raised(n, "place", "credential")
                   /\ ~(enrich_pc = "raised" /\ n = count))
                => n \in sleeps
        ELSE sleeps = {}

\* C8: every row needing enrichment whose 'Golf Course Name' is non-empty is
\* looked up: find_place is called for it with that name as input.
C8_NamedRowIsLookedUp ==
    C_Running =>
        \A n \in 1..count :
            (df[n].GolfCourseName # None /\ df[n].GolfCourseName # <<>>)
            => \E k \in 1..Len(calls) :
                  /\ calls[k].row = n /\ calls[k].op = "find_place"
                  /\ calls[k].input = df[n].GolfCourseName

\* C9: when no row of the input has an absent or empty Address, the function
\* returns the input unchanged and makes no lookup call, applies no delay and
\* writes nothing to the checkpoint path.
C9_NothingToEnrich ==
    \A i \in 1..Len(in_df) : in_df[i].Address \notin { <<"None">>, <<"NaN">>, <<>> }
C9_NoOpWhenAllAddressed ==
    (C9_NothingToEnrich /\ enrich_pc # "start") =>
        /\ enrich_pc = "done"
        /\ returned = in_df
        /\ calls = <<>> /\ sleeps = {}
        /\ csv_log = <<>> /\ checkpoint = <<>>
C9_Witness ==
    /\ C9_NothingToEnrich /\ Len(in_df) = MaxRows
    /\ enrich_pc = "done" /\ returned = in_df /\ csv_log = <<>>

\* C11: the postcode rule accepts a record exactly when its country code is
\* GBR and the postal code is one or two letters, a digit, an optional letter
\* or digit, an optional single space, a digit and two letters; or the country
\* code is FRA and the postal code is exactly 5 digits; or the country code is
\* any other value.
C11_UKPattern(s) ==
    \E a \in 1..2, b \in 0..1, c \in 0..1 :
        /\ Len(s) = a + 1 + b + c + 3
        /\ \A k \in 1..a : s[k] \in Upper
        /\ s[a + 1] \in Digits
        /\ (b = 1 => s[a + 2] \in Upper \cup Digits)
        /\ (c = 1 => s[a + b + 2] = " ")
        /\ s[a + b + c + 2] \in Digits
        /\ s[a + b + c + 3] \in Upper /\ s[a + b + c + 4] \in Upper
C11_FiveDigits(s) == Len(s) = 5 /\ \A k \in 1..5 : s[k] \in Digits
C11_Accepted(record) ==
    \/ record.CountryCode = "GBR" /\ C11_UKPattern(record.PostCode)
    \/ record.CountryCode = "FRA" /\ C11_FiveDigits(record.PostCode)
    \/ record.CountryCode \notin {"GBR", "FRA"}
C11_PostcodeRuleAcceptsExactly ==
    call_pc = "returned" => (~call_result <=> C11_Accepted(call_args))

\* C12: the par rule accepts a record exactly when its category is 9-hole
\* par-3 and par = 27, or 9-hole and par is within 28..45, or 18-hole and par
\* is within 68..74.
C12_Accepted(record) ==
    \/ record.CourseType = "9 hole - par 3 course" /\ record.Par = 27
    \/ record.CourseType = "9 hole" /\ record.Par \in 28..45
    \/ record.CourseType = "18 hole" /\ record.Par \in 68..74
C12_ParRuleAcceptsExactly ==
    call_pc = "returned" => (~call_result <=> C12_Accepted(call_args))
C12_Witness ==
    /\ call_pc = "returned"
    /\ call_args = [CourseType |-> "18 hole", Par |-> 75]
    /\ call_result = TRUE

\* ---- helpers of the claims on build_clean_address
C_Tagged(c, tags) == c.types \cap tags # {}
C_Surviving(cs) ==
    SelectSeq(cs, LAMBDA c : ~C_Tagged(c, {"postal_code", "postal_code_suffix", "country"}))
C_StreetNumbers(cs) ==
    SelectSeq(C_Surviving(cs), LAMBDA c : C_Tagged(c, {"street_number"}))
C_Routes(cs) ==
    SelectSeq(C_Surviving(cs), LAMBDA c : C_Tagged(c, {"route"})
                                           /\ ~C_Tagged(c, {"street_number"}))
C_Others(cs) ==
    SelectSeq(C_Surviving(cs), LAMBDA c : ~C_Tagged(c, {"street_number", "route"}))
C_HasDigit(text) == \E k \in 1..Len(text) : text[k] \in Digits
\* the street block of a street-number text and a route text (<<>>: none)
C_Block(number, route) ==
    IF number # <<>> /\ route # <<>>
    THEN number \o (IF C_HasDigit(number) THEN <<" ">> ELSE <<",", " ">>) \o route
    ELSE number \o route
\* the block followed by the other components, comma-space between the
\* segments that are not empty
RECURSIVE C_CommaJoin(_)
C_CommaJoin(parts) ==
    IF parts = <<>> THEN <<>>
    ELSE LET rest == C_CommaJoin(Tail(parts))
         IN  IF Head(parts) = <<>> THEN rest
             ELSE IF rest = <<>> THEN Head(parts)
             ELSE Head(parts) \o <<",", " ">> \o rest
C_Address(block, cs) ==
    C_CommaJoin(<<block>> \o [k \in 1..Len(C_Others(cs)) |-> C_Others(cs)[k].long_name])
C_TextAt(seq, k) == IF seq = <<>> THEN <<>> ELSE seq[k].long_name

\* C13 (as claimed): the output never contains the text of an input component
\* tagged postal code, and is empty when every component is excluded.
C13_NeverContainsPostalCode ==
    call_pc = "returned" =>
        /\ \A k \in 1..Len(call_args) :
              "postal_code" \in call_args[k].types
              => ~Contains(call_args[k].long_name, call_result)
        /\ (C_Surviving(call_args) = <<>> => call_result = <<>>)

\* C13 (amended): the output is the address built from the components that
\* carry none of the tags postal code, postal code suffix and country, as if
\* the others were not in the list; a postal-code text of which no character
\* occurs in a surviving component is not contained in it; and it is empty
\* when no component survives.
C13_SharesCharacter(text, cs) ==
    \E k \in 1..Len(text) :
        \/ text[k] \in {",", " "}
        \/ \E i \in 1..Len(cs) : \E j \in 1..Len(cs[i].long_name) :
              cs[i].long_name[j] = text[k]
C13_BuiltFromSurvivingOnly ==
    call_pc = "returned" =>
        /\ call_result = build_clean_address(C_Surviving(call_args))
        /\ \A k \in 1..Len(call_args) :
              ("postal_code" \in call_args[k].types
                 /\ ~C13_SharesCharacter(call_args[k].long_name, C_Surviving(call_args)))
              => ~Contains(call_args[k].long_name, call_result)
        /\ (C_Surviving(call_args) = <<>> => call_result = <<>>)
C13_Witness ==
    /\ call_pc = "returned"
    /\ call_args = << Component(<<"1", "2">>, {"street_number"}),
                      Component(<<"1", "2">>, {"postal_code"}),
                      Component(<<"U", "K">>, {"country", "political"}) >>
    /\ call_result = <<"1", "2">>

\* C14: with a street-number component and a route component, the street
\* block is the two texts joined by a space when the street-number text has a
\* digit and by comma-space when it has none; with one of them only, it is
\* that text; the result is the block followed by the other non-excluded
\* components in their order, comma-space between the non-empty segments.
C14_AtMostOneOfEach(cs) == Len(C_StreetNumbers(cs)) <= 1 /\ Len(C_Routes(cs)) <= 1
C14_StreetBlockThenOthers ==
    (call_pc = "returned" /\ C14_AtMostOneOfEach(call_args)) =>
        call_result =
            C_Address(C_Block(C_TextAt(C_StreetNumbers(call_args), 1),
                              C_TextAt(C_Routes(call_args), 1)),
                      call_args)
C14_Witness ==
    /\ call_pc = "returned"
    /\ call_args = << Component(<<"L">>, {"locality", "political"}),
                      Component(<<"D">>, {"route"}),
                      Component(<<"V">>, {"street_number"}) >>
    /\ call_result = <<"V", ",", " ", "D", ",", " ", "L">>

\* C18 (as claimed): with several non-excluded street-number components, or
\* several route components, the street block uses the first of them in list
\* order.
C18_Several(cs) == Len(C_StreetNumbers(cs)) > 1 \/ Len(C_Routes(cs)) > 1
C18_FirstOccurrenceWins ==
    (call_pc = "returned" /\ C18_Several(call_args)) =>
        call_result =
            C_Address(C_Block(C_TextAt(C_StreetNumbers(call_args), 1),
                              C_TextAt(C_Routes(call_args), 1)),
                      call_args)

\* C18 (amended): with several non-excluded street-number components, or
\* several route components, the street block uses the last of them in list
\* order.
C18_LastOccurrenceWins ==
    (call_pc = "returned" /\ C18_Several(call_args)) =>
        call_result =
            C_Address(C_Block(C_TextAt(C_StreetNumbers(call_args),
                                       Len(C_StreetNumbers(call_args))),
                              C_TextAt(C_Routes(call_args), Len(C_Routes(call_args)))),
                      call_args)
C18_Witness ==
    /\ call_pc = "returned"
    /\ call_args = << Component(<<"1", "2">>, {"street_number"}),
                      Component(<<"V">>, {"street_number"}),
                      Component(<<"D">>, {"route"}) >>
    /\ call_result = <<"V", ",", " ", "D">>

\* C15: calculate_confidence returns High exactly when (a target category is
\* among the result's tags, or the non-empty keyword occurs, whatever the
\* case, in the result's name or in the search text) and the result is not a
\* partial match; otherwise Medium exactly when the tags include
\* "establishment" or "point_of_interest"; otherwise Low.  High wins over
\* Medium when both conditions are met.
C15_KeywordIn(kw, text) == \E i \in 0..(Len(text) - Len(kw)) :
    \A k \in 1..Len(kw) : lower(<<kw[k]>>) = lower(<<text[i + k]>>)
C15_HighCondition(a) ==
    /\ \/ a.target_types \cap a.result.types # {}
       \/ /\ a.keyword # <<>>
          /\ \/ C15_KeywordIn(a.keyword, a.result.name)
             \/ C15_KeywordIn(a.keyword, a.search_query)
    /\ ~a.result.partial_match
C15_MediumCondition(a) == a.result.types \cap {"establishment", "point_of_interest"} # {}
C15_ConfidenceRating ==
    call_pc = "returned" =>
        /\ (call_result = <<"H", "i", "g", "h">>) <=> C15_HighCondition(call_args)
        /\ (call_result = <<"M", "e", "d", "i", "u", "m">>)
              <=> (~C15_HighCondition(call_args) /\ C15_MediumCondition(call_args))
        /\ (call_result = <<"L", "o", "w">>)
              <=> (~C15_HighCondition(call_args) /\ ~C15_MediumCondition(call_args))
C15_Witness ==
    /\ call_pc = "returned"
    /\ call_args.result.types = {"establishment"}
    /\ call_args.result.name = <<"G", "O", "L", "F", " ", "C">>
    /\ call_args.keyword = <<"g", "o", "l", "f">>
    /\ call_args.search_query = <<"B">>
    /\ call_args.target_types = {"golf_course"}
    /\ ~call_args.result.partial_match
    /\ C15_HighCondition(call_args) /\ C15_MediumCondition(call_args)
    /\ call_result = <<"H", "i", "g", "h">>

\* C16: extract_postcode returns the main postal-code text and the suffix
\* text joined by exactly one space when a component tagged postal code and a
\* component tagged postal code suffix are both present, the text of the one
\* present when only one is, and None when neither is.
C16_Texts(cs, tag) ==
    { cs[k].long_name : k \in { i \in 1..Len(cs) : tag \in cs[i].types } }
C16_PostcodeAssembled ==
    call_pc = "returned" =>
        LET mains == C16_Texts(call_args, "postal_code")
            suffixes == C16_Texts(call_args, "postal_code_suffix")
        IN  IF mains # {} /\ suffixes # {}
            THEN \E m \in mains, x \in suffixes : call_result = m \o <<" ">> \o x
            ELSE IF mains # {} THEN call_result \in mains
            ELSE IF suffixes # {} THEN call_result \in suffixes
            ELSE call_result = <<"None">>
C16_Witness ==
    /\ call_pc = "returned"
    /\ call_args = << Component(<<"1", "Q">>, {"postal_code_suffix"}),
                      Component(<<"D">>, {"route"}),
                      Component(<<"T", "1">>, {"postal_code"}) >>
    /\ call_result = <<"T", "1", " ", "1", "Q">>

\* C17: the error report of a row that violates several rules at once (field
\* rules, a field rule with a cross-field rule, or both cross-field rules)
\* names every violated rule, and its total_errors is the number of rules
\* the row violates.
C17_Numerals == << "0", "1", "2", "3", "4", "5", "6", "7", "8", "9" >>
RECURSIVE C17_Decimal(_)
C17_Decimal(n) ==
    IF n < 10 THEN << C17_Numerals[n + 1] >>
    ELSE C17_Decimal(n \div 10) \o << C17_Numerals[(n % 10) + 1] >>
C17_PostcodeMessage(row) ==
    << "Value error, " >>
    \o (IF row.CountryCode = "GBR" THEN << "Invalid UK postcode format: " >>
        ELSE << "France postcodes must be exactly 5 digits: " >>)
    \o row.PostCode
C17_ParMessage(row) ==
    << "Value error, " >>
    \o (IF row.CourseType = "9 hole - par 3 course"
          THEN << "For a 9 Hole Par 3 course, par must be 27. Received: " >>
        ELSE IF row.CourseType = "9 hole"
          THEN << "For a 9 Hole course, par must be between 28 and 45.Received: " >>
        ELSE << "For an 18 Hole course, par must be between 68 and 74. Received: " >>)
    \o C17_Decimal(row.Par)
C17_Violated(row) ==
    (IF row.CountryCode \notin {"GBR", "FRA", "USA"}
     THEN { << "Invalid country alpha3 code" >> } ELSE {})
    \cup
    (IF row.CourseType \notin {"9 hole - par 3 course", "9 hole", "18 hole"}
     THEN { << "Input should be '9 hole - par 3 course', '9 hole' or '18 hole'" >> }
     ELSE {})
    \cup
    (IF Len(row.Address) < 5 THEN { << "String should have at least 5 characters" >> }
     ELSE {})
    \cup
    (IF Len(row.Address) > 150 THEN { << "String should have at most 150 characters" >> }
     ELSE {})
    \cup
    (IF row.Latitude > 90 THEN { << "Input should be less than or equal to 90" >> }
     ELSE {})
    \cup
    (IF row.Latitude < -90 THEN { << "Input should be greater than or equal to -90" >> }
     ELSE {})
    \cup
    (IF \/ row.CountryCode = "GBR" /\ ~C11_UKPattern(row.PostCode)
        \/ row.CountryCode = "FRA" /\ ~C11_FiveDigits(row.PostCode)
     THEN { C17_PostcodeMessage(row) } ELSE {})
    \cup
    (IF /\ row.CourseType \in {"9 hole - par 3 course", "9 hole", "18 hole"}
        /\ ~C12_Accepted(row)
     THEN { C17_ParMessage(row) } ELSE {})
C17_AllViolatedRulesReported ==
    \A e \in 1..Len(errors) :
        LET row == errors[e].row
        IN  /\ errors[e].total_errors = Cardinality(C17_Violated(row))
            /\ \A m \in C17_Violated(row) :
                  \E f \in 1..Len(errors) :
                      /\ errors[f].row = row
                      /\ \E i \in 1..Len(errors[f].error_details) :
                            errors[f].error_details[i].msg = m

\* C19: the DataFrame returned holds every row of the input: the rows that
\* had a non-empty Address at entry, unchanged, together with the rows that
\* were selected for enrichment; it has as many rows as the input.
C19_ReturnsEveryInputRow ==
    enrich_pc = "done" =>
        /\ Len(returned) = Len(in_df)
        /\ \A i \in 1..Len(in_df) :
              \E k \in 1..Len(returned) :
                  /\ returned[k].index = in_df[i].index
                  /\ (in_df[i].Address \notin { <<"None">>, <<"NaN">>, <<>> }
                        => returned[k] = in_df[i])

\* C20: in the DataFrame returned, every row for which find_place answered OK
\* with a first candidate carrying a non-empty formatted address has a
\* non-empty Address, whatever place answered, and so is not selected again
\* by the mask of a later run.
C20_FoundWithAddress(n) ==
    \E k \in 1..Len(calls) :
        /\ calls[k].row = n /\ calls[k].op = "find_place"
        /\ calls[k].answer.kind = "return" /\ calls[k].answer.status = "OK"
        /\ calls[k].answer.candidates # <<>>
        /\ calls[k].answer.candidates[1].formatted_address # None
        /\ calls[k].answer.candidates[1].formatted_address # <<>>
C20_FoundRowKeepsAnAddress ==
    (enrich_pc = "done" /\ rows_to_process > 0) =>
        \A n \in 1..count :
            C20_FoundWithAddress(n)
            => /\ returned[n].Address # None /\ returned[n].Address # <<>>
               /\ n \notin mask(returned)

=============================================================================
